---- MODULE Spec2Model ----
(***************************************************************************)
(* A model of the notebook "RAG-Based AI Chatbot_Workflow.ipynb": its      *)
(* data transformations (extract_entities, compile_documents and           *)
(* expected_keys) and the cells that call the storage, search, embedding   *)
(* and chat services.                                                      *)
(*                                                                         *)
(* Python values are modelled as follows.                                  *)
(*   str   a TLA+ string (TLC evaluates \o, Len and SubSeq on strings)     *)
(*   dict  a function whose DOMAIN is the set of its keys                  *)
(*   list  a sequence                                                      *)
(* Dictionaries are objects: the notebook stores references to them and    *)
(* updates them in place.  The variable heap holds the dictionaries, in    *)
(* allocation order, and a reference is an index into heap.                *)
(***************************************************************************)
EXTENDS Integers, Sequences, FiniteSets, TLC

VARIABLES
    pc,                 \* the step of the run that was executed last
    data,               \* list of LabelRecords (parsed label files)
    heap,               \* the dict objects: heap[r] is the content of object r
    heap0,              \* heap as it was when the last operation was called
    entities,           \* list of references: the FlatEntity stream
    title_keys,         \* the title_keys argument of the last compile_documents call
    compiled_documents, \* list of references: the documents
    expected_key_list,  \* the key list of the last expected_keys call
    error,              \* the exception the last operation raised, or "none"
    env,                \* the names of the settings the environment holds
    blob_list,          \* the blobs of the container, in listing order
    ops,                \* the calls made to the services and the console, in order
    uuids,              \* the identifiers uuid.uuid4() has returned, in order
    final_documents,    \* list of dicts: the documents with their embeddings
    snapshot,           \* the file vector_data.json
    documents,          \* the list read back from the file
    conversation_history \* list of the messages of the conversation

\* The variables of the cells that call services.
service == <<env, blob_list, ops, uuids, final_documents, snapshot, documents,
             conversation_history>>

vars == <<pc, data, heap, heap0, entities, title_keys, compiled_documents,
          expected_key_list, error, service>>

\* The file vector_data.json before it is written.
NoFile == [written |-> FALSE, text |-> <<>>]

\* The service cells have not run.
ServiceIdle ==
    /\ env = {}
    /\ blob_list = <<>>
    /\ ops = <<>>
    /\ uuids = <<>>
    /\ final_documents = <<>>
    /\ snapshot = NoFile
    /\ documents = <<>>
    /\ conversation_history = <<>>

(***************************************************************************)
(* Bounds of the model.                                                    *)
(***************************************************************************)
\* Largest size of a list of LabelRecords: records + label entries + spans.
MaxSize == 6
\* Longest FlatEntity stream handed to compile_documents.
MaxEntities == 4
\* Longest document list handed to expected_keys.
MaxDocs == 2
\* Largest number of blobs in the container.
MaxBlobs == 3

\* The label names that occur in label files.
Labels == {"document_title", "title", "author"}

\* The text of a value span.
Texts == {"", "Doc", "1"}

(***************************************************************************)
(* Python dict and list helpers.                                           *)
(***************************************************************************)
EmptyDict == [k \in {} |-> ""]

\* {key: value}
SingleDict(key, value) == [k \in {key} |-> value]

\* A join that writes the separator after every text, the last included.
RECURSIVE Join_TrailingSep(_, _)
Join_TrailingSep(sep, texts) ==
    IF texts = <<>> THEN ""
    ELSE texts[1] \o sep \o Join_TrailingSep(sep, Tail(texts))

\* sep.join(texts)
RECURSIVE Join(_, _)
Join(sep, texts) ==
    IF texts = <<>> THEN ""
    ELSE IF Len(texts) = 1 THEN texts[1]
    ELSE texts[1] \o sep \o Join(sep, Tail(texts))

(***************************************************************************)
(* extract_entities(data)                                                  *)
(***************************************************************************)
\* document.get('labels', [])
GetLabels(document) ==
    IF "labels" \in DOMAIN document THEN document["labels"] ELSE <<>>

\* The body of the inner loop: the entity of one label entry.
EntityOf(item) ==
    LET label == item["label"]
        entity_texts == [j \in 1..Len(item["value"]) |-> item["value"][j]["text"]]
        entity == Join(" ", entity_texts)
    IN  SingleDict(label, entity)

\* An inner loop that skips an entity already in the list.
RECURSIVE ExtractFromLabels_Dedup(_, _)
ExtractFromLabels_Dedup(acc, labels) ==
    IF labels = <<>> THEN acc
    ELSE ExtractFromLabels_Dedup(
             IF \E i \in 1..Len(acc) : acc[i] = EntityOf(Head(labels))
             THEN acc
             ELSE Append(acc, EntityOf(Head(labels))),
             Tail(labels))

\* The inner loop over one document's label entries, appending to the list.
RECURSIVE ExtractFromLabels(_, _)
ExtractFromLabels(acc, labels) ==
    IF labels = <<>> THEN acc
    ELSE ExtractFromLabels(Append(acc, EntityOf(Head(labels))), Tail(labels))

\* The outer loop over the documents.
RECURSIVE ExtractLoop(_, _)
ExtractLoop(acc, records) ==
    IF records = <<>> THEN acc
    ELSE ExtractLoop(ExtractFromLabels(acc, GetLabels(Head(records))), Tail(records))

\* The list of (fresh) entity dicts that extract_entities returns.
extract_entities(d) == ExtractLoop(<<>>, d)

(***************************************************************************)
(* The inputs of extract_entities: every list of LabelRecords built from   *)
(* at most MaxSize records, label entries and value spans.  The list is    *)
(* built one record, label entry or span at a time.                        *)
(***************************************************************************)
\* A label file without a 'labels' field.
NoLabelsRecord == [document |-> "file.pdf"]

LastOf(s) == s[Len(s)]
ButLast(s) == SubSeq(s, 1, Len(s) - 1)

\* The lists obtained from d by adding one record, one label entry to the
\* last record, or one span to the last label entry.
ExtendData(d) ==
    {Append(d, [labels |-> <<>>]), Append(d, NoLabelsRecord)}
    \cup (IF d # <<>> /\ "labels" \in DOMAIN LastOf(d)
          THEN {Append(ButLast(d),
                       [labels |-> Append(LastOf(d)["labels"], [label |-> l, value |-> <<>>])])
                : l \in Labels}
          ELSE {})
    \cup (IF d # <<>> /\ "labels" \in DOMAIN LastOf(d) /\ LastOf(d)["labels"] # <<>>
          THEN LET ls == LastOf(d)["labels"]
                   e == LastOf(ls)
               IN  {Append(ButLast(d),
                           [labels |-> Append(ButLast(ls),
                                              [label |-> e["label"],
                                               value |-> Append(e["value"], [text |-> t])])])
                    : t \in Texts}
          ELSE {})

\* The number of records, label entries and spans of d.
RECURSIVE EntriesSize(_)
EntriesSize(labels) ==
    IF labels = <<>> THEN 0
    ELSE 1 + Len(Head(labels)["value"]) + EntriesSize(Tail(labels))

RECURSIVE DataSize(_)
DataSize(d) ==
    IF d = <<>> THEN 0
    ELSE 1 + EntriesSize(GetLabels(Head(d))) + DataSize(Tail(d))

InitExtract ==
    /\ pc = "loading"
    /\ data = <<>>
    /\ heap = <<>>
    /\ heap0 = <<>>
    /\ entities = <<>>
    /\ title_keys = [isNone |-> TRUE, keys |-> {}]
    /\ compiled_documents = <<>>
    /\ expected_key_list = <<>>
    /\ error = "none"
    /\ ServiceIdle

\* The label files that the container holds are the environment's choice:
\* data grows by a record, a label entry or a span, up to MaxSize.
LoadLabels ==
    /\ pc = "loading"
    /\ DataSize(data) < MaxSize
    /\ data' \in ExtendData(data)
    /\ UNCHANGED <<pc, heap, heap0, entities, title_keys, compiled_documents,
                   expected_key_list, error, service>>

\* entities = extract_entities(data): every entity is a new dict object.
ExtractEntities ==
    /\ pc = "loading"
    /\ LET result == extract_entities(data)
       IN  /\ heap0' = heap
           /\ heap' = heap \o result
           /\ entities' = [i \in 1..Len(result) |-> Len(heap) + i]
    /\ pc' = "extracted"
    /\ UNCHANGED <<data, title_keys, compiled_documents, expected_key_list, error, service>>

NextExtract == LoadLabels \/ ExtractEntities

SpecExtract == InitExtract /\ [][NextExtract]_vars

(***************************************************************************)
(* compile_documents(entities, title_keys)                                 *)
(*                                                                         *)
(* The operators work on the heap h: entities and compiled_docs are lists  *)
(* of references, current_doc is a reference.  "current_doc = item" makes  *)
(* current_doc refer to the entity's own dict, and "current_doc.update"    *)
(* updates whichever dict current_doc refers to, in place.                 *)
(***************************************************************************)
\* A test for None only: an empty title_keys passes.
TitleKeysFalsy_NoneOnly(tk) == tk.isNone

\* not title_keys: the argument is None or empty.
TitleKeysFalsy(tk) == tk.isNone \/ tk.keys = {}

\* A title test that wants every title key in the item.
IsTitleItem_All(item, keys) == \A key \in keys : key \in DOMAIN item

\* any(key in item for key in title_keys)
IsTitleItem(item, keys) == \E key \in keys : key \in DOMAIN item

\* An update that keeps the value a key already has.
DictUpdate_KeepFirst(d, item) ==
    [k \in (DOMAIN d) \cup (DOMAIN item) |-> IF k \in DOMAIN d THEN d[k] ELSE item[k]]

\* An update that changes the keys d already has and adds none.
DictUpdate_ExistingKeysOnly(d, item) ==
    [k \in DOMAIN d |-> IF k \in DOMAIN item THEN item[k] ELSE d[k]]

\* d.update(item): the pairs of item overwrite those of d.
DictUpdate(d, item) ==
    [k \in (DOMAIN d) \cup (DOMAIN item) |-> IF k \in DOMAIN item THEN item[k] ELSE d[k]]

\* A test that takes every dict, the empty one included, as true.
DictTruthy_Always(d) == TRUE

\* The truth value of a dict: it is not empty.
DictTruthy(d) == DOMAIN d # {}

\* if current_doc: compiled_docs.append(current_doc)
AppendIfTruthy(h, compiled_docs, current_doc) ==
    IF DictTruthy(h[current_doc]) THEN Append(compiled_docs, current_doc) ELSE compiled_docs

\* A return that forgets the document still open.
CompileFinish_NoFlush(h, compiled_docs, current_doc) ==
    [raised |-> FALSE, heap |-> h, compiled_docs |-> compiled_docs]

\* After the loop: add the last document and return the list.
CompileFinish(h, compiled_docs, current_doc) ==
    [raised |-> FALSE, heap |-> h,
     compiled_docs |-> AppendIfTruthy(h, compiled_docs, current_doc)]

\* A loop that starts the new document empty and leaves the title entity out.
RECURSIVE CompileLoop_UnseededDoc(_, _, _, _, _)
CompileLoop_UnseededDoc(h, compiled_docs, current_doc, rest, keys) ==
    IF rest = <<>> THEN CompileFinish(h, compiled_docs, current_doc)
    ELSE LET item == Head(rest) IN
         IF IsTitleItem(h[item], keys)
         THEN CompileLoop_UnseededDoc(Append(h, EmptyDict),
                                      AppendIfTruthy(h, compiled_docs, current_doc),
                                      Len(h) + 1, Tail(rest), keys)
         ELSE CompileLoop_UnseededDoc([h EXCEPT ![current_doc] = DictUpdate(@, h[item])],
                                      compiled_docs, current_doc, Tail(rest), keys)

\* The loop over the entities still to visit.
RECURSIVE CompileLoop(_, _, _, _, _)
CompileLoop(h, compiled_docs, current_doc, rest, keys) ==
    IF rest = <<>> THEN CompileFinish(h, compiled_docs, current_doc)
    ELSE LET item == Head(rest) IN
         IF IsTitleItem(h[item], keys)
         THEN CompileLoop(h, AppendIfTruthy(h, compiled_docs, current_doc),
                          item, Tail(rest), keys)
         ELSE CompileLoop([h EXCEPT ![current_doc] = DictUpdate(@, h[item])],
                          compiled_docs, current_doc, Tail(rest), keys)

\* The call: raised tells whether ValueError was raised; otherwise heap is
\* the heap at the return and compiled_docs the list returned.  The dict
\* made by "current_doc = {}" is the next free object of the heap.
compile_documents(h, ents, tk) ==
    IF TitleKeysFalsy(tk)
    THEN [raised |-> TRUE, heap |-> h, compiled_docs |-> <<>>]
    ELSE CompileLoop(Append(h, EmptyDict), <<>>, Len(h) + 1, ents, tk.keys)

(***************************************************************************)
(* The inputs of compile_documents: streams of at most MaxEntities         *)
(* single-key entities, as extract_entities makes them, and a title_keys   *)
(* argument that is None or a set of labels.                               *)
(***************************************************************************)
\* The values a label takes in the streams.
ValuesOf(label) ==
    CASE label = "document_title" -> {"Doc1", "Doc2"}
      [] label = "author" -> {"A1", "A2"}
      [] OTHER -> {"X", "Y"}

EntityPool == UNION {{SingleDict(l, v) : v \in ValuesOf(l)} : l \in Labels}

EntityStreams == UNION {[1..n -> EntityPool] : n \in 0..MaxEntities}

NoneArg == [isNone |-> TRUE, keys |-> {}]

TitleKeyArgs == {NoneArg} \cup {[isNone |-> FALSE, keys |-> ks] : ks \in SUBSET Labels}

InitCompile ==
    /\ pc = "extracted"
    /\ data = <<>>
    /\ heap \in EntityStreams
    /\ heap0 = heap
    /\ entities = [i \in 1..Len(heap) |-> i]
    /\ title_keys = NoneArg
    /\ compiled_documents = <<>>
    /\ expected_key_list = <<>>
    /\ error = "none"
    /\ ServiceIdle

\* compiled_documents = compile_documents(entities, title_keys=tk)
CompileDocuments ==
    /\ pc = "extracted"
    /\ \E tk \in TitleKeyArgs :
          LET result == compile_documents(heap, entities, tk)
          IN  /\ title_keys' = tk
              /\ heap0' = heap
              /\ heap' = result.heap
              /\ IF result.raised
                 THEN /\ error' = "ValueError"
                      /\ pc' = "compile_failed"
                      /\ UNCHANGED compiled_documents
                 ELSE /\ error' = "none"
                      /\ pc' = "compiled"
                      /\ compiled_documents' = result.compiled_docs
    /\ UNCHANGED <<data, entities, expected_key_list, service>>

NextCompile == CompileDocuments

SpecCompile == InitCompile /\ [][NextCompile]_vars

(***************************************************************************)
(* expected_keys(compiled_documents, expected_key_list)                    *)
(***************************************************************************)
\* An assignment that is not guarded by the membership test.
SetIfMissing_Overwrite(doc, expected_key) ==
    [k \in (DOMAIN doc) \cup {expected_key} |-> IF k = expected_key THEN "Null" ELSE doc[k]]

\* A fill with the empty string in place of 'Null'.
SetIfMissing_Empty(doc, expected_key) ==
    IF expected_key \notin DOMAIN doc
    THEN [k \in (DOMAIN doc) \cup {expected_key} |-> IF k = expected_key THEN "" ELSE doc[k]]
    ELSE doc

\* if expected_key not in compiled_doc: compiled_doc[expected_key] = 'Null'
SetIfMissing(doc, expected_key) ==
    IF expected_key \notin DOMAIN doc
    THEN [k \in (DOMAIN doc) \cup {expected_key} |-> IF k = expected_key THEN "Null" ELSE doc[k]]
    ELSE doc

\* The inner loop over the expected keys, on the content of one document.
RECURSIVE FillKeys(_, _)
FillKeys(doc, keys) ==
    IF keys = <<>> THEN doc
    ELSE FillKeys(SetIfMissing(doc, Head(keys)), Tail(keys))

\* The outer loop over the documents: each is updated in place.
RECURSIVE ExpectedKeysLoop(_, _, _)
ExpectedKeysLoop(h, docs, keys) ==
    IF docs = <<>> THEN h
    ELSE ExpectedKeysLoop([h EXCEPT ![Head(docs)] = FillKeys(@, keys)], Tail(docs), keys)

\* A version that collects the filled documents in the list it was given,
\* so that the list returned holds every document twice.
expected_keys_AppendToInput(h, docs, keys) ==
    [heap |-> ExpectedKeysLoop(h, docs, keys), compiled_documents |-> docs \o docs]

\* The call: heap is the heap at the return and compiled_documents the
\* list returned, which is the list passed.
expected_keys(h, docs, keys) ==
    [heap |-> ExpectedKeysLoop(h, docs, keys), compiled_documents |-> docs]

(***************************************************************************)
(* The inputs of expected_keys: lists of at most MaxDocs documents whose   *)
(* keys are labels, and a list of distinct expected keys.                  *)
(***************************************************************************)
DocPool == UNION {[ks -> {"X", "Null"}] : ks \in SUBSET Labels}

DocLists == UNION {[1..n -> DocPool] : n \in 0..MaxDocs}

KeyLists ==
    {ks \in UNION {[1..n -> Labels] : n \in 0..Cardinality(Labels)} :
        \A a, b \in 1..Len(ks) : a # b => ks[a] # ks[b]}

InitNormalize ==
    /\ pc = "compiled"
    /\ data = <<>>
    /\ heap \in DocLists
    /\ heap0 = heap
    /\ entities = <<>>
    /\ title_keys = NoneArg
    /\ compiled_documents = [i \in 1..Len(heap) |-> i]
    /\ expected_key_list \in KeyLists
    /\ error = "none"
    /\ ServiceIdle

\* compiled_documents = expected_keys(compiled_documents, expected_key_list)
ExpectedKeys ==
    /\ pc = "compiled"
    /\ LET result == expected_keys(heap, compiled_documents, expected_key_list)
       IN  /\ heap0' = heap
           /\ heap' = result.heap
           /\ compiled_documents' = result.compiled_documents
    /\ pc' = "normalized"
    /\ UNCHANGED <<data, entities, title_keys, expected_key_list, error, service>>

NextNormalize == ExpectedKeys

SpecNormalize == InitNormalize /\ [][NextNormalize]_vars

(***************************************************************************)
(* Claims about compile_documents.  They compare the documents returned    *)
(* with the entity stream as it was when the call was made (heap0).        *)
(***************************************************************************)
\* Entity p of the stream, as passed to the call.
Item(p) == heap0[entities[p]]

\* Document i of the list returned.
Doc(i) == heap[compiled_documents[i]]

\* The positions of the title entities.
TitlePositions == {p \in 1..Len(entities) : (DOMAIN Item(p)) \cap title_keys.keys # {}}

\* A non-title entity comes before the first title entity, or the stream
\* is not empty and has no title entity.
HasLeadingRun ==
    \/ \E p \in TitlePositions :
          /\ \A q \in TitlePositions : p <= q
          /\ \E q \in 1..(p - 1) : q \notin TitlePositions
    \/ TitlePositions = {} /\ Len(entities) > 0

\* C1: compile_documents returns one document per title entity, and one
\* more exactly when a leading run of non-title entities exists.
C1_DocumentCount ==
    pc = "compiled" =>
        Len(compiled_documents) =
            Cardinality(TitlePositions) + (IF HasLeadingRun THEN 1 ELSE 0)

\* A leading non-title entity and two title entities give three documents.
C1_Witness ==
    /\ pc = "compiled"
    /\ HasLeadingRun
    /\ Cardinality(TitlePositions) = 2
    /\ Len(compiled_documents) = 3

\* C2: with title_keys None or empty the call raises ValueError whatever
\* the entity stream is; no list is returned and nothing is changed.
C2_FalsyTitleKeysRaise ==
    (pc # "extracted" /\ (title_keys.isNone \/ title_keys.keys = {})) =>
        /\ pc = "compile_failed"
        /\ error = "ValueError"
        /\ compiled_documents = <<>>
        /\ heap = heap0

\* title_keys = [] and an empty stream: an error, not an empty list.
C2_Witness ==
    /\ pc = "compile_failed"
    /\ error = "ValueError"
    /\ ~title_keys.isNone
    /\ title_keys.keys = {}
    /\ entities = <<>>

\* The positions where a run begins: every title entity, and the start of
\* the stream.
RunStarts == TitlePositions \cup (IF Len(entities) > 0 THEN {1} ELSE {})

\* The first position of the i-th run.
RunStart(i) == CHOOSE p \in RunStarts : Cardinality({q \in RunStarts : q <= p}) = i

\* The positions of the i-th run: up to the position before the next run.
Run(i) ==
    RunStart(i) .. (IF i = Cardinality(RunStarts) THEN Len(entities) ELSE RunStart(i + 1) - 1)

\* C3: the documents are the runs of the stream, in stream order: document
\* i has the keys of the entities of run i and each of its pairs is the
\* pair of an entity of run i.
C3_DocumentsAreRuns ==
    pc = "compiled" =>
        /\ Len(compiled_documents) = Cardinality(RunStarts)
        /\ \A i \in 1..Len(compiled_documents) :
              /\ DOMAIN Doc(i) = UNION {DOMAIN Item(p) : p \in Run(i)}
              /\ \A k \in DOMAIN Doc(i) :
                    \E p \in Run(i) : k \in DOMAIN Item(p) /\ Item(p)[k] = Doc(i)[k]

\* The stream document_title:Doc1, author:A1, document_title:Doc2,
\* author:A2 with title_keys {document_title}.
C3_Witness ==
    /\ pc = "compiled"
    /\ title_keys = [isNone |-> FALSE, keys |-> {"document_title"}]
    /\ Len(entities) = 4
    /\ Item(1) = SingleDict("document_title", "Doc1")
    /\ Item(2) = SingleDict("author", "A1")
    /\ Item(3) = SingleDict("document_title", "Doc2")
    /\ Item(4) = SingleDict("author", "A2")
    /\ Len(compiled_documents) = 2
    /\ Doc(1) = [document_title |-> "Doc1", author |-> "A1"]
    /\ Doc(2) = [document_title |-> "Doc2", author |-> "A2"]

\* The last position of the set ps whose entity has key k.
LastWithKey(ps, k) ==
    CHOOSE p \in ps : /\ k \in DOMAIN Item(p)
                      /\ \A q \in ps : k \in DOMAIN Item(q) => q <= p

\* C4: a stream without title entity gives no document when it is empty
\* and otherwise one document, which has every key of the stream, each
\* with the value of the last entity that has the key.
C4_NoTitleOneDocument ==
    (pc = "compiled" /\ TitlePositions = {}) =>
        IF entities = <<>>
        THEN compiled_documents = <<>>
        ELSE /\ Len(compiled_documents) = 1
             /\ Doc(1) = [k \in UNION {DOMAIN Item(p) : p \in 1..Len(entities)} |->
                             Item(LastWithKey(1..Len(entities), k))[k]]

\* Three entities, none a title entity, merged into one document.
C4_Witness ==
    /\ pc = "compiled"
    /\ TitlePositions = {}
    /\ Len(entities) = 3
    /\ Len(compiled_documents) = 1
    /\ Cardinality(DOMAIN Doc(1)) = 2

\* C5: in every document a key that is no title key has the value of the
\* last entity of the document's run that has the key.
C5_LastWriteWins ==
    pc = "compiled" =>
        \A i \in 1..Len(compiled_documents) :
            \A k \in (DOMAIN Doc(i)) \ title_keys.keys :
                Doc(i)[k] = Item(LastWithKey(Run(i), k))[k]

\* Between two title entities two entities have the same key and different
\* values: the document has the second value.
C5_Witness ==
    /\ pc = "compiled"
    /\ Len(entities) = 4
    /\ TitlePositions = {1, 4}
    /\ DOMAIN Item(2) = DOMAIN Item(3)
    /\ Item(2) # Item(3)
    /\ \A k \in DOMAIN Item(3) : Doc(1)[k] = Item(3)[k]

\* C19: only the first document can lack a title key, and it does exactly
\* when the stream starts with a non-title entity; every other document
\* has exactly one title key, with the value of the title entity that
\* opened it.
C19_OnlyFirstDocumentLacksTitle ==
    pc = "compiled" =>
        \A i \in 1..Len(compiled_documents) :
            LET tks == (DOMAIN Doc(i)) \cap title_keys.keys
            IN  IF i = 1 /\ 1 \notin TitlePositions
                THEN tks = {}
                ELSE /\ Cardinality(tks) = 1
                     /\ RunStart(i) \in TitlePositions
                     /\ \A k \in tks : k \in DOMAIN Item(RunStart(i))
                                       /\ Doc(i)[k] = Item(RunStart(i))[k]

\* Two title keys; the stream starts with a non-title entity and has a
\* title entity of each key: the first of three documents has no title key.
C19_Witness ==
    /\ pc = "compiled"
    /\ Cardinality(title_keys.keys) = 2
    /\ 1 \notin TitlePositions
    /\ Len(compiled_documents) = 3
    /\ (DOMAIN Doc(1)) \cap title_keys.keys = {}
    /\ DOMAIN Doc(2) # DOMAIN Doc(3)

\* The labels of the input entities, and those of the returned documents.
InputKeys == UNION {DOMAIN Item(p) : p \in 1..Len(entities)}
ReturnedKeys == UNION {DOMAIN Doc(i) : i \in 1..Len(compiled_documents)}

\* C21: with non-empty title_keys no returned document is empty, and the
\* keys of the returned documents together are the keys of the input
\* entities: no label is lost and none is invented.
C21_KeysPreserved ==
    pc = "compiled" =>
        /\ \A i \in 1..Len(compiled_documents) : DOMAIN Doc(i) # {}
        /\ ReturnedKeys = InputKeys

\* Two documents came back, the first without a title, and a value was
\* dropped by a collision of keys inside one document.
C21_Witness ==
    /\ pc = "compiled"
    /\ Len(entities) = 4
    /\ Len(compiled_documents) = 2
    /\ 1 \notin TitlePositions
    /\ Cardinality(DOMAIN Doc(1)) + Cardinality(DOMAIN Doc(2)) < Len(entities)
    /\ Cardinality(InputKeys) = 3

\* C20: compile_documents leaves the entities it was given as they were:
\* after the call every entity of the stream holds the pair it held before.
C20_InputEntitiesUnchanged ==
    pc = "compiled" =>
        \A p \in 1..Len(entities) : heap[entities[p]] = Item(p)

(***************************************************************************)
(* Claims about expected_keys.  Doc(i) is document i after the call and    *)
(* heap0 holds the documents as they were passed.                          *)
(***************************************************************************)
\* The keys of the expected key list.
ExpectedKeySet == {expected_key_list[j] : j \in 1..Len(expected_key_list)}

\* C6: after expected_keys every document has every expected key, and an
\* expected key the document did not have has the value "Null".
C6_MissingKeysAreNull ==
    pc = "normalized" =>
        \A i \in 1..Len(compiled_documents) : \A k \in ExpectedKeySet :
            /\ k \in DOMAIN Doc(i)
            /\ k \notin DOMAIN heap0[compiled_documents[i]] => Doc(i)[k] = "Null"

\* expected_keys([{title: X}], [title, author]) = [{title: X, author: Null}]
C6_Witness ==
    /\ pc = "normalized"
    /\ heap0 = <<[title |-> "X"]>>
    /\ expected_key_list = <<"title", "author">>
    /\ Len(compiled_documents) = 1
    /\ Doc(1) = [title |-> "X", author |-> "Null"]

\* C7: expected_keys applied to its own result, with the same key list,
\* returns that result: the same list of the same documents.
C7_Idempotent ==
    pc = "normalized" =>
        expected_keys(heap, compiled_documents, expected_key_list)
            = [heap |-> heap, compiled_documents |-> compiled_documents]

\* Two documents, the call added a key to one of them, and a second call
\* has the first call's result to work on.
C7_Witness ==
    /\ pc = "normalized"
    /\ Len(compiled_documents) = 2
    /\ heap # heap0
    /\ Len(expected_key_list) = 2

\* C8: expected_keys returns the list it was given (here every object of
\* the heap, in order), makes no document, lets every key a document had
\* keep its value, and adds no key that is not expected.
C8_OnlyAddsMissingKeys ==
    pc = "normalized" =>
        /\ compiled_documents = [i \in 1..Len(heap0) |-> i]
        /\ Len(heap) = Len(heap0)
        /\ \A r \in 1..Len(heap0) :
              /\ \A k \in DOMAIN heap0[r] : k \in DOMAIN heap[r] /\ heap[r][k] = heap0[r][k]
              /\ DOMAIN heap[r] \subseteq (DOMAIN heap0[r]) \cup ExpectedKeySet

\* A document has an expected key with a value and a key that is not
\* expected, and lacks an expected key: only the missing key is added.
C8_Witness ==
    /\ pc = "normalized"
    /\ Len(compiled_documents) = 2
    /\ expected_key_list = <<"author", "title">>
    /\ heap0[2] = [title |-> "X", document_title |-> "X"]
    /\ heap[2] = [title |-> "X", document_title |-> "X", author |-> "Null"]

(***************************************************************************)
(* Claims about extract_entities.                                          *)
(***************************************************************************)
\* The number of label entries of record r of data.
LabelCount(r) == IF "labels" \in DOMAIN data[r] THEN Len(data[r]["labels"]) ELSE 0

\* The number of label entries of the records before record r.
RECURSIVE EntriesBefore(_)
EntriesBefore(r) == IF r <= 1 THEN 0 ELSE EntriesBefore(r - 1) + LabelCount(r - 1)

\* The entity emitted for label entry j of record r.
EmittedFor(r, j) == heap[entities[EntriesBefore(r) + j]]

\* C9: extract_entities emits one single-key entity per label entry, in
\* record order and then label order, without deduplication: the output
\* length is the sum of the records' label counts, the entity at the
\* position of entry j of record r has that entry's label as its only key,
\* every entity is an object of its own, and a record without label entries
\* contributes nothing.
C9_OneEntityPerLabelEntry ==
    pc = "extracted" =>
        /\ Len(entities) = EntriesBefore(Len(data) + 1)
        /\ \A r \in 1..Len(data) : \A j \in 1..LabelCount(r) :
              DOMAIN EmittedFor(r, j) = {data[r]["labels"][j]["label"]}
        /\ \A a, b \in 1..Len(entities) : a # b => entities[a] # entities[b]

\* A record without labels, an empty record, and then a record with the
\* same label entry twice: both copies are emitted.
C9_Witness ==
    /\ pc = "extracted"
    /\ Len(data) = 3
    /\ "labels" \notin DOMAIN data[1]
    /\ LabelCount(2) = 0
    /\ LabelCount(3) = 2
    /\ data[3]["labels"][1] = data[3]["labels"][2]
    /\ Len(entities) = 2
    /\ heap[entities[1]] = heap[entities[2]]

\* The texts of the value spans of label entry j of record r.
SpanText(r, j, i) == data[r]["labels"][j]["value"][i]["text"]
SpanCount(r, j) == Len(data[r]["labels"][j]["value"])

\* Where span i of entry (r, j) starts in the entity's value, less one.
RECURSIVE SpanOffset(_, _, _)
SpanOffset(r, j, i) ==
    IF i <= 1 THEN 0 ELSE SpanOffset(r, j, i - 1) + Len(SpanText(r, j, i - 1)) + 1

\* The value of the entity emitted for label entry j of record r.
EmittedValue(r, j) == EmittedFor(r, j)[data[r]["labels"][j]["label"]]

\* C10: the value of the entity of a label entry is the span texts in span
\* order with exactly one space between consecutive spans and nothing
\* before the first or after the last; no spans give the empty string.
C10_ValueIsSpaceJoinedTexts ==
    pc = "extracted" =>
        \A r \in 1..Len(data) : \A j \in 1..LabelCount(r) :
            LET v == EmittedValue(r, j)
                m == SpanCount(r, j)
            IN  /\ m = 0 => v = ""
                /\ m > 0 => Len(v) = SpanOffset(r, j, m) + Len(SpanText(r, j, m))
                /\ \A i \in 1..m :
                      LET o == SpanOffset(r, j, i)
                          t == SpanText(r, j, i)
                      IN  /\ SubSeq(v, o + 1, o + Len(t)) = t
                          /\ i < m => SubSeq(v, o + Len(t) + 1, o + Len(t) + 1) = " "

\* Three spans, the middle one empty: two spaces separate "Doc" and "1".
C10_Witness ==
    /\ pc = "extracted"
    /\ \E r \in 1..Len(data) : \E j \in 1..LabelCount(r) :
          /\ SpanCount(r, j) = 3
          /\ SpanText(r, j, 1) = "Doc"
          /\ SpanText(r, j, 2) = ""
          /\ SpanText(r, j, 3) = "1"
          /\ EmittedValue(r, j) = "Doc  1"

(***************************************************************************)
(* extract_labels_from_blob(blob_url, sas_token, container_name,           *)
(* filter_value)                                                           *)
(*                                                                         *)
(* A blob is [name, kind]; kind tells what a download of it gives:         *)
(*   "json"         text that json.loads parses into a LabelRecord         *)
(*   "malformed"    text that json.loads rejects (JSONDecodeError)         *)
(*   "empty"        the empty string                                       *)
(*   "unavailable"  the download raises                                    *)
(* An entry of ops is [op, arg]: the call made and what it was made on.    *)
(***************************************************************************)
Op(op, arg) == [op |-> op, arg |-> arg]

\* filter_value = ['config', 'fields', 'ocr']
FilterValue == <<"config", "fields", "ocr">>

\* name.endswith(suffix)
EndsWith(name, suffix) ==
    /\ Len(name) >= Len(suffix)
    /\ SubSeq(name, Len(name) - Len(suffix) + 1, Len(name)) = suffix

\* value in name: value is a substring of name.
Contains(name, value) ==
    \E i \in 1..(Len(name) - Len(value) + 1) : SubSeq(name, i, i + Len(value) - 1) = value

\* A test of the suffix alone: the filter terms are not looked at.
NameSelected_SuffixOnly(name, filter_value) == EndsWith(name, ".json")

\* blob.name.endswith('.json') and all(value not in blob.name for value in filter_value)
NameSelected(name, filter_value) ==
    /\ EndsWith(name, ".json")
    /\ \A j \in 1..Len(filter_value) : ~Contains(name, filter_value[j])

\* json.loads of the text of a blob of kind "json": the record of the file.
ParsedRecord(blob) == [document |-> blob.name, labels |-> <<>>]

\* The loop over the blobs listed.  failed tells that an exception left
\* the loop for the handler of the function, which returns [].
RECURSIVE ExtractLabelsLoop(_, _, _, _)
ExtractLabelsLoop(labels, log, rest, filter_value) ==
    IF rest = <<>> THEN [failed |-> FALSE, labels |-> labels, ops |-> log]
    ELSE LET blob == Head(rest)
             log1 == Append(log, Op("download_blob", blob.name))
         IN  IF NameSelected(blob.name, filter_value)
             THEN CASE blob.kind = "unavailable" ->
                           \* download_blob_to_string prints and returns None
                           ExtractLabelsLoop(labels,
                                             Append(log1, Op("print", "Error downloading blob")),
                                             Tail(rest), filter_value)
                    [] blob.kind = "empty" ->
                           \* "if blob_content" is false for ''
                           ExtractLabelsLoop(labels, log1, Tail(rest), filter_value)
                    [] blob.kind = "malformed" ->
                           \* json.loads raises: except Exception: print(e); return []
                           [failed |-> TRUE, labels |-> <<>>,
                            ops |-> Append(log1, Op("print", "JSONDecodeError"))]
                    [] OTHER ->
                           ExtractLabelsLoop(Append(labels, ParsedRecord(blob)), log1,
                                             Tail(rest), filter_value)
             ELSE ExtractLabelsLoop(labels, log, Tail(rest), filter_value)

\* The call, when list_blobs answers (listed) or raises.
extract_labels_from_blob(blobs, listed, filter_value) ==
    IF listed
    THEN ExtractLabelsLoop(<<>>, <<Op("list_blobs", "ok")>>, blobs, filter_value)
    ELSE [failed |-> TRUE, labels |-> <<>>,
          ops |-> <<Op("list_blobs", "error"), Op("print", "list_blobs error")>>]

\* The names and kinds of the blobs of the container.
BlobNames == {"a.labels.json", "b.labels.json", "a.ocr.json", "fields.json", "a.pdf"}
BlobKinds == {"json", "malformed", "empty", "unavailable"}

InitLoad ==
    /\ pc = "container"
    /\ data = <<>>
    /\ heap = <<>>
    /\ heap0 = <<>>
    /\ entities = <<>>
    /\ title_keys = NoneArg
    /\ compiled_documents = <<>>
    /\ expected_key_list = <<>>
    /\ error = "none"
    /\ ServiceIdle

\* The container is the environment's: it holds up to MaxBlobs blobs, each
\* with a name of its own.
StoreBlob ==
    /\ pc = "container"
    /\ Len(blob_list) < MaxBlobs
    /\ \E n \in BlobNames, k \in BlobKinds :
          /\ \A p \in 1..Len(blob_list) : blob_list[p].name # n
          /\ blob_list' = Append(blob_list, [name |-> n, kind |-> k])
    /\ UNCHANGED <<pc, data, heap, heap0, entities, title_keys, compiled_documents,
                   expected_key_list, error, env, ops, uuids, final_documents,
                   snapshot, documents, conversation_history>>

\* data = extract_labels_from_blob(blob_url, sas_token, container_name, filter_value)
ExtractLabelsFromBlob ==
    /\ pc = "container"
    /\ \E listed \in BOOLEAN :
          LET result == extract_labels_from_blob(blob_list, listed, FilterValue)
          IN  /\ data' = result.labels
              /\ ops' = ops \o result.ops
    /\ pc' = "labels_loaded"
    /\ UNCHANGED <<heap, heap0, entities, title_keys, compiled_documents,
                   expected_key_list, error, env, blob_list, uuids, final_documents,
                   snapshot, documents, conversation_history>>

NextLoad == StoreBlob \/ ExtractLabelsFromBlob

SpecLoad == InitLoad /\ [][NextLoad]_vars

(***************************************************************************)
(* Claims about extract_labels_from_blob.                                  *)
(***************************************************************************)
\* The names of BlobNames that end in '.json' and hold no filter term.
LabelFileNames == {"a.labels.json", "b.labels.json"}

\* The position of the blob called name in the listing.
BlobPosition(name) == CHOOSE p \in 1..Len(blob_list) : blob_list[p].name = name

\* The names of the blobs listed.
ListedNames == {blob_list[p].name : p \in 1..Len(blob_list)}

\* C14: a malformed file is skipped and is not fatal: when the listing
\* succeeded, the record of every selected file that parses is returned.
C14_MalformedFileSkipped ==
    (pc = "labels_loaded" /\ ops[1] = Op("list_blobs", "ok")) =>
        \A p \in 1..Len(blob_list) :
            (blob_list[p].name \in LabelFileNames /\ blob_list[p].kind = "json") =>
                \E j \in 1..Len(data) : data[j] = ParsedRecord(blob_list[p])

\* C15: a blob is downloaded, and a record of it returned, only if its
\* name ends in '.json' and holds no filter term; the records returned
\* are in listing order.
C15_OnlySelectedFilesInListingOrder ==
    pc = "labels_loaded" =>
        /\ \A i \in 1..Len(ops) :
              ops[i].op = "download_blob" =>
                  ops[i].arg \in LabelFileNames \cap ListedNames
        /\ \A j \in 1..Len(data) :
              data[j]["document"] \in LabelFileNames \cap ListedNames
        /\ \A j, k \in 1..Len(data) :
              j < k => BlobPosition(data[j]["document"]) < BlobPosition(data[k]["document"])

\* Two label files with an 'ocr' file between them: two downloads and
\* two records, in listing order.
C15_Witness ==
    /\ pc = "labels_loaded"
    /\ Len(blob_list) = 3
    /\ blob_list[1] = [name |-> "b.labels.json", kind |-> "json"]
    /\ blob_list[2] = [name |-> "a.ocr.json", kind |-> "json"]
    /\ blob_list[3] = [name |-> "a.labels.json", kind |-> "json"]
    /\ data = <<ParsedRecord(blob_list[1]), ParsedRecord(blob_list[3])>>
    /\ Cardinality({i \in 1..Len(ops) : ops[i].op = "download_blob"}) = 2

(***************************************************************************)
(* The cells that embed the documents, write vector_data.json, read it     *)
(* back and upload what was read.  An exception that a cell does not       *)
(* catch ends the cell and the run.                                        *)
(***************************************************************************)
\* expected_key_list = ['id', 'title', 'author', 'published_date']
NotebookKeyList == <<"id", "title", "author", "published_date">>

\* str(uuid.uuid4()): an identifier that was not returned before; ids are
\* the identifiers returned so far.
NewUuid(ids) == "uuid-" \o ToString(Len(ids) + 1)

\* response.data[0].embedding: the vector the service returns for a text.
Embedding(text) == <<Len(text)>>

\* [compiled_doc[key] for key in expected_key_list if key in compiled_doc]
RECURSIVE ValuesInKeyOrder(_, _)
ValuesInKeyOrder(doc, keys) ==
    IF keys = <<>> THEN <<>>
    ELSE (IF Head(keys) \in DOMAIN doc THEN <<doc[Head(keys)]>> ELSE <<>>)
         \o ValuesInKeyOrder(doc, Tail(keys))

\* combined_content of a document
CombinedContent(doc, keys) == Join(" ", ValuesInKeyOrder(doc, keys))

\* final_data: the three fields first, then every pair of compiled_doc is
\* assigned, which overwrites a field of the same name.
FinalData(doc, keys, id) ==
    DictUpdate([k \in {"id", "combined_content", "combined_content_vector"} |->
                   CASE k = "id" -> id
                     [] k = "combined_content" -> CombinedContent(doc, keys)
                     [] OTHER -> Embedding(CombinedContent(doc, keys))],
               doc)

\* The loop over compiled_documents.  The embeddings.create call for
\* document fail_at raises (fail_at = 0: no call raises); nothing in the
\* cell catches it.
RECURSIVE EmbedLoop(_, _, _, _, _, _, _, _)
EmbedLoop(h, docs, keys, fail_at, i, finals, ids, log) ==
    IF i > Len(docs) THEN [raised |-> FALSE, final_documents |-> finals, uuids |-> ids, ops |-> log]
    ELSE LET compiled_doc == h[docs[i]]
             log1 == Append(log, Op("embeddings.create", CombinedContent(compiled_doc, keys)))
         IN  IF i = fail_at
             THEN [raised |-> TRUE, final_documents |-> finals, uuids |-> ids,
                   ops |-> Append(log1, Op("raise", "embeddings.create"))]
             ELSE EmbedLoop(h, docs, keys, fail_at, i + 1,
                            Append(finals, FinalData(compiled_doc, keys, NewUuid(ids))),
                            Append(ids, NewUuid(ids)), log1)

\* The order in which json.dump writes the keys of a document.
JsonKeyOrder ==
    <<"id", "combined_content", "combined_content_vector", "title", "author",
      "published_date", "document_title">>

\* The text of one document: its key/value pairs.
RECURSIVE JsonPairs(_, _)
JsonPairs(doc, order) ==
    IF order = <<>> THEN <<>>
    ELSE (IF Head(order) \in DOMAIN doc THEN <<<<Head(order), doc[Head(order)]>>>> ELSE <<>>)
         \o JsonPairs(doc, Tail(order))

\* json.dump(final_documents, f): the text of the file.
JsonDump(docs) == [i \in 1..Len(docs) |-> JsonPairs(docs[i], JsonKeyOrder)]

\* The dict that json.load builds from the pairs of one document.
JsonObject(pairs) ==
    [k \in {pairs[i][1] : i \in 1..Len(pairs)} |->
        pairs[CHOOSE i \in 1..Len(pairs) :
                  /\ pairs[i][1] = k
                  /\ \A j \in 1..Len(pairs) : pairs[j][1] = k => j <= i][2]]

\* json.load(file)
JsonLoad(text) == [i \in 1..Len(text) |-> JsonObject(text[i])]

\* The documents before normalisation: not empty, with labels as keys.
CompiledPool == UNION {[ks -> {"X", "Y"}] : ks \in (SUBSET {"title", "author"}) \ {{}}}

\* The documents after expected_keys(compiled_documents, expected_key_list).
NormalizedPool == {FillKeys(d, NotebookKeyList) : d \in CompiledPool}

InitEmbed ==
    /\ pc = "normalized"
    /\ data = <<>>
    /\ heap \in UNION {[1..n -> NormalizedPool] : n \in 0..MaxDocs}
    /\ heap0 = heap
    /\ entities = <<>>
    /\ title_keys = NoneArg
    /\ compiled_documents = [i \in 1..Len(heap) |-> i]
    /\ expected_key_list = NotebookKeyList
    /\ error = "none"
    /\ ServiceIdle

\* The cell "Prepare final documents for upload".
EmbedCell ==
    /\ pc = "normalized"
    /\ \E fail_at \in 0..Len(compiled_documents) :
          LET result == EmbedLoop(heap, compiled_documents, expected_key_list, fail_at, 1,
                                  <<>>, uuids, <<>>)
          IN  /\ final_documents' = result.final_documents
              /\ uuids' = result.uuids
              /\ ops' = ops \o result.ops
              /\ pc' = IF result.raised THEN "embed_failed" ELSE "embedded"
              /\ error' = IF result.raised THEN "Exception" ELSE "none"
    /\ UNCHANGED <<data, heap, heap0, entities, title_keys, compiled_documents,
                   expected_key_list, env, blob_list, snapshot, documents,
                   conversation_history>>

\* The cell that writes final_documents to vector_data.json and reads the
\* file back into documents.
SnapshotCell ==
    /\ pc = "embedded"
    /\ snapshot' = [written |-> TRUE, text |-> JsonDump(final_documents)]
    /\ documents' = JsonLoad(JsonDump(final_documents))
    /\ ops' = ops \o <<Op("json.dump", "vector_data.json"), Op("json.load", "vector_data.json")>>
    /\ pc' = "snapshot_read"
    /\ UNCHANGED <<data, heap, heap0, entities, title_keys, compiled_documents,
                   expected_key_list, error, env, blob_list, uuids, final_documents,
                   conversation_history>>

\* An upload cell that runs before the file is written and sends
\* final_documents.
UploadCell_BeforeSnapshot ==
    /\ pc = "embedded"
    /\ ops' = Append(ops, Op("upload_documents", final_documents))
    /\ pc' = "uploaded"
    /\ UNCHANGED <<data, heap, heap0, entities, title_keys, compiled_documents,
                   expected_key_list, error, env, blob_list, uuids, final_documents,
                   snapshot, documents, conversation_history>>

\* The cell search_client.upload_documents(documents): documents is a
\* list, so it is not wrapped; the call returns or raises.
UploadCell ==
    /\ pc = "snapshot_read"
    /\ ops' = Append(ops, Op("upload_documents", documents))
    /\ \E ok \in BOOLEAN :
          /\ pc' = IF ok THEN "uploaded" ELSE "upload_failed"
          /\ error' = IF ok THEN "none" ELSE "Exception"
    /\ UNCHANGED <<data, heap, heap0, entities, title_keys, compiled_documents,
                   expected_key_list, env, blob_list, uuids, final_documents,
                   snapshot, documents, conversation_history>>

NextEmbed == EmbedCell \/ SnapshotCell \/ UploadCell

SpecEmbed == InitEmbed /\ [][NextEmbed]_vars

(***************************************************************************)
(* Claims about the embedding and upload cells.                            *)
(***************************************************************************)
\* The embedding cell has ended, by its last statement or by an exception.
EmbedCellEnded == pc \in {"embedded", "embed_failed", "snapshot_read", "uploaded", "upload_failed"}

\* C11: every final document has the identifier generated for it as its
\* 'id', and no two final documents have the same 'id'.
C11_UniqueDocumentIds ==
    EmbedCellEnded =>
        /\ \A i \in 1..Len(final_documents) : final_documents[i]["id"] = uuids[i]
        /\ \A i, j \in 1..Len(final_documents) :
              i # j => final_documents[i]["id"] # final_documents[j]["id"]

\* The number of embedding calls that raised.
EmbeddingFailures == Cardinality({i \in 1..Len(ops) : ops[i] = Op("raise", "embeddings.create")})

\* C13: a failure of the embedding call for a document is caught and the
\* loop goes on: the cell ends without an exception and every document
\* whose call did not fail is in final_documents.
C13_EmbeddingFailureNonFatal ==
    EmbedCellEnded =>
        /\ error # "Exception" \/ pc = "upload_failed"
        /\ Len(final_documents) + EmbeddingFailures = Len(compiled_documents)

\* C16: whenever upload_documents is called, all documents were embedded,
\* the file was written before with all final documents, and the documents
\* sent are those a read of the file gives.
C16_UploadAfterSnapshot ==
    \A i \in 1..Len(ops) :
        ops[i].op = "upload_documents" =>
            /\ Len(final_documents) = Len(compiled_documents)
            /\ snapshot.written
            /\ snapshot.text = JsonDump(final_documents)
            /\ \E j \in 1..(i - 1) : ops[j].op = "json.dump"
            /\ ops[i].arg = JsonLoad(snapshot.text)
            /\ Len(ops[i].arg) = Len(final_documents)

\* Two documents were embedded, written, read back and uploaded.
C16_Witness ==
    /\ pc = "uploaded"
    /\ Len(compiled_documents) = 2
    /\ Len(final_documents) = 2
    /\ snapshot.written
    /\ Len(snapshot.text) = 2
    /\ ops[Len(ops)] = Op("upload_documents", documents)
    /\ Len(documents) = 2

(***************************************************************************)
(* The cells that read the settings, create the clients and the index and  *)
(* load the label files.  env is the set of settings the environment has;  *)
(* os.getenv of a setting that is not there gives None and does not fail.  *)
(***************************************************************************)
\* The settings read by the first cell, in the order of the reads.
ConfigSettings ==
    <<"key_vault_name", "openai_secret_key_name", "openai_endpoint_name", "deployment_name",
      "search_endpoint_name", "search_endpoint_key", "use_embedding_deployment",
      "embedding_dimensions">>

\* The settings read by the cell that loads the label files.
BlobSettings == <<"url-of-blob", "your-sas-token-of-blob-container", "your-container-name">>

\* The names of a sequence of settings.
SettingNames(settings) == {settings[i] : i \in 1..Len(settings)}

\* One os.getenv per setting.
GetenvOps(settings) == [i \in 1..Len(settings) |-> Op("os.getenv", settings[i])]

\* A client constructor of a library, given the settings it is built
\* from: with all of them it returns; without one it returns or raises.
ConstructorRaises(e, needed) == IF needed \subseteq e THEN {FALSE} ELSE BOOLEAN

InitConfig ==
    /\ pc = "start"
    /\ data = <<>>
    /\ heap = <<>>
    /\ heap0 = <<>>
    /\ entities = <<>>
    /\ title_keys = NoneArg
    /\ compiled_documents = <<>>
    /\ expected_key_list = <<>>
    /\ error = "none"
    /\ env \in SUBSET (SettingNames(ConfigSettings) \cup SettingNames(BlobSettings))
    /\ blob_list \in {<<>>, <<[name |-> "a.labels.json", kind |-> "json"]>>}
    /\ ops = <<>>
    /\ uuids = <<>>
    /\ final_documents = <<>>
    /\ snapshot = NoFile
    /\ documents = <<>>
    /\ conversation_history = <<>>

\* The cell of the os.getenv reads: int(None) raises TypeError.
LoadConfig ==
    /\ pc = "start"
    /\ ops' = ops \o GetenvOps(ConfigSettings)
    /\ pc' = IF "embedding_dimensions" \in env THEN "configured" ELSE "aborted"
    /\ error' = IF "embedding_dimensions" \in env THEN "none" ELSE "TypeError"
    /\ UNCHANGED <<data, heap, heap0, entities, title_keys, compiled_documents,
                   expected_key_list, env, blob_list, uuids, final_documents,
                   snapshot, documents, conversation_history>>

\* client = AzureOpenAI(...): without the key the token provider is used.
CreateClient ==
    /\ pc = "configured"
    /\ \E raises \in ConstructorRaises(env, {"openai_endpoint_name"}) :
          /\ pc' = IF raises THEN "aborted" ELSE "client_ready"
          /\ error' = IF raises THEN "Exception" ELSE "none"
    /\ UNCHANGED <<data, heap, heap0, entities, title_keys, compiled_documents,
                   expected_key_list, env, blob_list, ops, uuids, final_documents,
                   snapshot, documents, conversation_history>>

\* create_custom_index('test_index', ..., embedding_deployment=use_embedding_deployment):
\* ValueError without the deployment; a failure of create_or_update_index
\* is printed and None is returned.
CreateIndex ==
    /\ pc = "client_ready"
    /\ IF "use_embedding_deployment" \notin env
       THEN /\ pc' = "aborted"
            /\ error' = "ValueError"
            /\ ops' = ops
       ELSE \E raises \in ConstructorRaises(env, {"search_endpoint_name", "search_endpoint_key"}) :
               IF raises
               THEN /\ pc' = "aborted"
                    /\ error' = "Exception"
                    /\ ops' = ops
               ELSE /\ pc' = "indexed"
                    /\ error' = "none"
                    /\ \E ok \in BOOLEAN :
                          ops' = IF ok
                                 THEN Append(ops, Op("create_or_update_index", "test_index"))
                                 ELSE ops \o <<Op("create_or_update_index", "test_index"),
                                               Op("print", "Error creating or updating index")>>
    /\ UNCHANGED <<data, heap, heap0, entities, title_keys, compiled_documents,
                   expected_key_list, env, blob_list, uuids, final_documents,
                   snapshot, documents, conversation_history>>

\* The cell that reads the blob settings and calls extract_labels_from_blob;
\* BlobServiceClient is built inside the try of the function, so its
\* exception is printed and [] is returned; no data ends the run by exit().
ExtractCell ==
    /\ pc = "indexed"
    /\ \E raises \in ConstructorRaises(env, SettingNames(BlobSettings)), listed \in BOOLEAN :
          LET result == IF raises
                        THEN [failed |-> TRUE, labels |-> <<>>,
                              ops |-> <<Op("print", "BlobServiceClient error")>>]
                        ELSE extract_labels_from_blob(blob_list, listed, FilterValue)
          IN  /\ data' = result.labels
              /\ ops' = ops \o GetenvOps(BlobSettings) \o result.ops
              /\ pc' = IF result.labels = <<>> THEN "exited" ELSE "labels_loaded"
    /\ UNCHANGED <<heap, heap0, entities, title_keys, compiled_documents,
                   expected_key_list, error, env, blob_list, uuids, final_documents,
                   snapshot, documents, conversation_history>>

NextConfig == LoadConfig \/ CreateClient \/ CreateIndex \/ ExtractCell

SpecConfig == InitConfig /\ [][NextConfig]_vars

(***************************************************************************)
(* Claims about the settings.                                              *)
(***************************************************************************)
\* The settings the pipeline is configured by: endpoints, credentials,
\* deployment names and the embedding dimensionality.
RequiredSettings ==
    {"openai_secret_key_name", "openai_endpoint_name", "deployment_name",
     "search_endpoint_name", "search_endpoint_key", "use_embedding_deployment",
     "embedding_dimensions", "url-of-blob", "your-sas-token-of-blob-container"}

\* The calls that are operations of the pipeline.
PipelineOps ==
    {"create_or_update_index", "list_blobs", "download_blob", "embeddings.create",
     "upload_documents", "search", "chat.completions.create"}

\* C17: every setting is read before the first operation of the pipeline,
\* and with a required setting missing no operation is performed.
C17_FailFastOnMissingSetting ==
    /\ \A i, j \in 1..Len(ops) :
          (ops[i].op = "os.getenv" /\ ops[j].op \in PipelineOps) => i < j
    /\ ~(RequiredSettings \subseteq env) =>
          \A i \in 1..Len(ops) : ops[i].op \notin PipelineOps

(***************************************************************************)
(* The conversation cell: one interaction with a fixed query, then the     *)
(* loop that reads the user's input.  A Python value that may be None is   *)
(* a record with the flag isNone.                                          *)
(***************************************************************************)
MaxTurns == 3

None == [isNone |-> TRUE, value |-> ""]
Value(v) == [isNone |-> FALSE, value |-> v]

Uppers == "ABCDEFGHIJKLMNOPQRSTUVWXYZ"
Lowers == "abcdefghijklmnopqrstuvwxyz"

\* The lower-case form of one character.
LowerChar(c) ==
    IF \E i \in 1..Len(Uppers) : SubSeq(Uppers, i, i) = c
    THEN LET i == CHOOSE i \in 1..Len(Uppers) : SubSeq(Uppers, i, i) = c
         IN  SubSeq(Lowers, i, i)
    ELSE c

\* str.lower()
RECURSIVE Lower(_)
Lower(text) ==
    IF text = "" THEN ""
    ELSE LowerChar(SubSeq(text, 1, 1)) \o Lower(SubSeq(text, 2, Len(text)))

\* A test of the input as typed, without lower().
IsExitCommand_CaseSensitive(user_input) == user_input \in {"exit", "quit"}

\* user_input.lower() in ['exit', 'quit']
IsExitCommand(user_input) == Lower(user_input) \in {"exit", "quit"}

\* str.strip(), for spaces
RECURSIVE Strip(_)
Strip(text) ==
    IF text = "" THEN ""
    ELSE IF SubSeq(text, 1, 1) = " " THEN Strip(SubSeq(text, 2, Len(text)))
    ELSE IF SubSeq(text, Len(text), Len(text)) = " " THEN Strip(SubSeq(text, 1, Len(text) - 1))
    ELSE text

\* The keys of result_dict, in the order they are set.
ResultKeys == <<"score", "title", "combined_content", "author", "published_date">>

\* result_dict of one result of the index
ResultDict(result) ==
    [k \in {ResultKeys[i] : i \in 1..Len(ResultKeys)} |->
        CASE k = "score" -> result["@search.score"]
          [] k = "published_date" -> result[k]
          [] OTHER -> Strip(result[k])]

\* perform_search(query_text): found is what search_client.search gives,
\* None when the call raises; the exception is printed and the function
\* ends without a return statement.
perform_search(query_text, found) ==
    IF found.isNone
    THEN [result |-> None,
          ops |-> <<Op("search", query_text), Op("print", "Failed response")>>]
    ELSE [result |-> Value([i \in 1..Len(found.value) |-> ResultDict(found.value[i])]),
          ops |-> <<Op("search", query_text)>>]

\* The lines "key: value" of one result.
RECURSIVE ResultLines(_, _)
ResultLines(result, keys) ==
    IF keys = <<>> THEN ""
    ELSE Head(keys) \o ": " \o result[Head(keys)] \o "\n" \o ResultLines(result, Tail(keys))

\* The part of the prompt for results[i..].
RECURSIVE ResultBlocks(_, _)
ResultBlocks(results, i) ==
    IF i > Len(results) THEN ""
    ELSE "Result " \o ToString(i) \o ":\n" \o ResultLines(results[i], ResultKeys) \o "\n"
         \o ResultBlocks(results, i + 1)

\* create_prompt(results, user_input), for results that are a list
create_prompt(results, user_input) ==
    "Here are some search results based on your query:\n\n"
    \o ResultBlocks(results, 1)
    \o "User query: " \o user_input
    \o "\nHow can I assist you further based on these results?"

\* get_openai_response(prompt): answer is the content of the completion,
\* None when the call raises; the exception is printed and the function
\* ends without a return statement.
get_openai_response(prompt, answer) ==
    IF answer.isNone
    THEN [result |-> None,
          ops |-> <<Op("chat.completions.create", prompt), Op("print", "Failed response")>>]
    ELSE [result |-> answer, ops |-> <<Op("chat.completions.create", prompt)>>]

\* results = perform_search(q); prompt = create_prompt(results, q);
\* chat_response = get_openai_response(prompt).  enumerate(None) raises
\* TypeError in create_prompt, and nothing catches it.
Interaction(query, found, answer) ==
    LET searched == perform_search(query, found)
    IN  IF searched.result.isNone
        THEN [raised |-> TRUE, chat_response |-> None,
              ops |-> Append(searched.ops, Op("raise", "TypeError"))]
        ELSE LET chatted == get_openai_response(create_prompt(searched.result.value, query), answer)
             IN  [raised |-> FALSE, chat_response |-> chatted.result,
                  ops |-> searched.ops \o chatted.ops]

\* A document of the index as the search returns it.
IndexHit ==
    [k \in {"@search.score", "title", "combined_content", "author", "published_date"} |->
        CASE k = "@search.score" -> "1.0"
          [] k = "title" -> " X"
          [] k = "combined_content" -> "Null X Y Null "
          [] k = "author" -> "Y"
          [] OTHER -> "Null"]

\* What a search call gives, and what a chat call gives.
SearchOutcomes == {None, Value(<<>>), Value(<<IndexHit>>)}
ChatOutcomes == {None, Value("answer")}

\* What the user types.
UserInputs == {"exit", "QUIT", "Quit", "hello", "exit now"}

\* The number of inputs read so far.
Turns == Cardinality({i \in 1..Len(ops) : ops[i].op = "input"})

InitChat ==
    /\ pc = "chat_start"
    /\ data = <<>>
    /\ heap = <<>>
    /\ heap0 = <<>>
    /\ entities = <<>>
    /\ title_keys = NoneArg
    /\ compiled_documents = <<>>
    /\ expected_key_list = NotebookKeyList
    /\ error = "none"
    /\ ServiceIdle

\* The statements before the loop.
InitialInteraction ==
    /\ pc = "chat_start"
    /\ \E found \in SearchOutcomes, answer \in ChatOutcomes :
          LET result == Interaction("I will asks you questions", found, answer)
          IN  IF result.raised
              THEN /\ ops' = ops \o result.ops
                   /\ pc' = "crashed"
                   /\ error' = "TypeError"
              ELSE /\ ops' = ops \o result.ops \o <<Op("print", "Chat Completion Response:")>>
                   /\ pc' = "await_input"
                   /\ error' = "none"
    /\ conversation_history' = <<>>
    /\ UNCHANGED <<data, heap, heap0, entities, title_keys, compiled_documents,
                   expected_key_list, env, blob_list, uuids, final_documents,
                   snapshot, documents>>

\* One pass of the loop "while True", from input() to the next input().
Turn ==
    /\ pc = "await_input"
    /\ Turns < MaxTurns
    /\ \E user_input \in UserInputs, found \in SearchOutcomes, answer \in ChatOutcomes :
          LET read == Append(ops, Op("input", user_input))
              result == Interaction(user_input, found, answer)
              asked == Append(conversation_history, [role |-> "user", content |-> Value(user_input)])
          IN  IF IsExitCommand(user_input)
              THEN /\ ops' = Append(read, Op("print", "Ending the conversation."))
                   /\ conversation_history' = conversation_history
                   /\ pc' = "ended"
                   /\ error' = "none"
              ELSE IF result.raised
              THEN /\ ops' = read \o result.ops
                   /\ conversation_history' = asked
                   /\ pc' = "crashed"
                   /\ error' = "TypeError"
              ELSE /\ ops' = read \o result.ops \o <<Op("print", "AI: ")>>
                   /\ conversation_history' =
                         Append(asked, [role |-> "assistant", content |-> result.chat_response])
                   /\ pc' = "await_input"
                   /\ error' = "none"
    /\ UNCHANGED <<data, heap, heap0, entities, title_keys, compiled_documents,
                   expected_key_list, env, blob_list, uuids, final_documents,
                   snapshot, documents>>

NextChat == InitialInteraction \/ Turn

SpecChat == InitChat /\ [][NextChat]_vars

(***************************************************************************)
(* Claims about the conversation loop.                                     *)
(***************************************************************************)
\* The positions of the inputs in ops.
TurnStarts == {i \in 1..Len(ops) : ops[i].op = "input"}

\* The last position of the turn that starts at i.
TurnEnd(i) ==
    IF \E j \in TurnStarts : j > i
    THEN (CHOOSE j \in TurnStarts : j > i /\ \A k \in TurnStarts : k > i => j <= k) - 1
    ELSE Len(ops)

\* The positions of the calls of one kind in the turn that starts at i.
CallsOfTurn(i, op) == {j \in i..TurnEnd(i) : ops[j].op = op}

\* C12: once the loop runs it is waiting for input or has ended, and it
\* has ended only by an exit command: no failure of a search or chat call
\* takes it anywhere else.
C12_LoopSurvivesServiceFailure ==
    TurnStarts # {} =>
        \/ pc = "await_input"
        \/ /\ pc = "ended"
           /\ \E i \in TurnStarts : TurnEnd(i) = Len(ops) /\ IsExitCommand(ops[i].arg)

\* C18: a turn with an exit command has no search and no chat call and
\* ends the loop; every other turn has one search call and, after it, one
\* chat call.
C18_OneSearchThenOneChatPerTurn ==
    \A i \in TurnStarts :
        IF IsExitCommand(ops[i].arg)
        THEN /\ CallsOfTurn(i, "search") = {}
             /\ CallsOfTurn(i, "chat.completions.create") = {}
             /\ TurnEnd(i) = Len(ops)
             /\ pc = "ended"
        ELSE /\ Cardinality(CallsOfTurn(i, "search")) = 1
             /\ Cardinality(CallsOfTurn(i, "chat.completions.create")) = 1
             /\ \A a \in CallsOfTurn(i, "search"), b \in CallsOfTurn(i, "chat.completions.create") :
                   a < b

\* The turns whose input is no exit command in any letter case.
NonExitTurns == {i \in TurnStarts : Lower(ops[i].arg) \notin {"exit", "quit"}}

\* The chat call of the turn that starts at i raised.
ChatFailedInTurn(i) ==
    \E j \in CallsOfTurn(i, "chat.completions.create") :
        j < TurnEnd(i) /\ ops[j + 1] = Op("print", "Failed response")

\* C22: while the loop waits for input, and after an exit command ended
\* it, conversation_history has two entries for every turn that was no
\* exit command and none for an exit command: for the k-th such turn the
\* user entry with the input of the turn, then the assistant entry, whose
\* content is None when the chat call of the turn failed.
C22_HistoryTwoEntriesPerTurn ==
    pc \in {"await_input", "ended"} =>
        LET turns == NonExitTurns
        IN  /\ Len(conversation_history) = 2 * Cardinality(turns)
            /\ \A i \in turns :
                  LET k == Cardinality({j \in turns : j <= i})
                  IN  /\ conversation_history[2 * k - 1] =
                            [role |-> "user", content |-> Value(ops[i].arg)]
                      /\ conversation_history[2 * k].role = "assistant"
                      /\ conversation_history[2 * k].content.isNone <=> ChatFailedInTurn(i)

\* The loop waits for its third input; the chat call failed in the first
\* turn and answered in the second.
C22_Witness ==
    /\ pc = "await_input"
    /\ Cardinality(TurnStarts) = 2
    /\ Len(conversation_history) = 4
    /\ conversation_history[2].content = None
    /\ conversation_history[4].content = Value("answer")
    /\ conversation_history[1].content # conversation_history[3].content

====
